---- MODULE Spec2Model ----
(***************************************************************************)
(* rtk::TotalVariationDenoisingBPDQImageFilter: total variation denoising  *)
(* by basis pursuit dequantization, along the processed dimensions only.   *)
(*                                                                         *)
(* Pixel values are exact rationals <<n, d>> (d > 0, lowest terms), so     *)
(* that scaling by beta and the projection are computed, not abstracted.   *)
(* Images are functions from grid indices (tuples of 1-based coordinates)  *)
(* to pixels; gradient images map each index to a vector with one          *)
(* component per processed dimension.                                      *)
(***************************************************************************)
EXTENDS Integers, Sequences, FiniteSets, TLC

(* ------------------------- pixel arithmetic --------------------------- *)
(* Each operation is a function of its operands, so that an operand is     *)
(* evaluated once, before the operation is applied.                        *)

Abs(n) ==
  IF n < 0 THEN -n ELSE n

GCD[p \in Nat \X Nat] ==
  IF p[2] = 0 THEN p[1] ELSE GCD[<<p[2], p[1] % p[2]>>]

\* n / d in lowest terms with a positive denominator
Lowest[p \in Int \X Int] ==
  LET s == IF p[2] < 0 THEN -1 ELSE 1
      g == GCD[<<Abs(p[1]), Abs(p[2])>>]
  IN  <<(s * p[1]) \div g, (s * p[2]) \div g>>

Rat(n, d) ==
  Lowest[<<n, d>>]

Zero ==
  <<0, 1>>

One ==
  <<1, 1>>

Pairs ==
  (Int \X Int) \X (Int \X Int)

Sum[p \in Pairs] ==
  Lowest[<<p[1][1] * p[2][2] + p[2][1] * p[1][2], p[1][2] * p[2][2]>>]

Difference[p \in Pairs] ==
  Lowest[<<p[1][1] * p[2][2] - p[2][1] * p[1][2], p[1][2] * p[2][2]>>]

Product[p \in Pairs] ==
  Lowest[<<p[1][1] * p[2][1], p[1][2] * p[2][2]>>]

Quotient[p \in Pairs] ==
  Lowest[<<p[1][1] * p[2][2], p[1][2] * p[2][1]>>]

LessEq[p \in Pairs] ==
  p[1][1] * p[2][2] <= p[2][1] * p[1][2]

RAdd(a, b) ==
  Sum[<<a, b>>]

RSub(a, b) ==
  Difference[<<a, b>>]

RMul(a, b) ==
  Product[<<a, b>>]

RDiv(a, b) ==
  Quotient[<<a, b>>]

RLe(a, b) ==
  LessEq[<<a, b>>]

RLt(a, b) ==
  ~LessEq[<<b, a>>]

Smaller[p \in Pairs] ==
  IF LessEq[p] THEN p[1] ELSE p[2]

Larger[p \in Pairs] ==
  IF LessEq[p] THEN p[2] ELSE p[1]

RMin(a, b) ==
  Smaller[<<a, b>>]

RMax(a, b) ==
  Larger[<<a, b>>]

Magnitude[a \in Int \X Int] ==
  <<Abs(a[1]), a[2]>>

RAbs(a) ==
  Magnitude[a]

\* the largest k in lo..hi with k * k <= n, by bisection
SqrtIn[p \in Nat \X Nat \X Nat] ==
  IF p[2] >= p[3] THEN p[2]
  ELSE LET mid == (p[2] + p[3] + 1) \div 2
       IN  IF mid * mid <= p[1] THEN SqrtIn[<<p[1], mid, p[3]>>]
           ELSE SqrtIn[<<p[1], p[2], mid - 1>>]

ISqrt(n) ==
  SqrtIn[<<n, 0, IF n < 46340 THEN n ELSE 46340>>]

Root[a \in Int \X Int] ==
  <<ISqrt(a[1]), ISqrt(a[2])>>

IsSquare(a) ==
  RMul(Root[a], Root[a]) = a

\* Square root; exact on the squares of rationals, the only arguments the
\* enumerated inputs let it meet (NormsExact below).
RSqrt(a) ==
  Root[a]

(* ------------------------------ images -------------------------------- *)

MaxExtent(shape) ==
  CHOOSE m \in {shape[k] : k \in 1..Len(shape)} :
    \A k \in 1..Len(shape) : shape[k] <= m

Grid(shape) ==
  {i \in [1..Len(shape) -> 1..MaxExtent(shape)] :
     \A k \in 1..Len(shape) : i[k] <= shape[k]}

Shift(i, d, delta) ==
  [i EXCEPT ![d] = @ + delta]

ActiveDims(mask) ==
  {d \in 1..Len(mask) : mask[d]}

NumActive(mask) ==
  Cardinality(ActiveDims(mask))


\* variant: component k differences dimension k, whatever the mask
ActiveDimUnmasked(mask, k) ==
  k

\* the dimension differenced by component k: the k-th processed dimension
ActiveDim(mask, k) ==
  CHOOSE d \in ActiveDims(mask) :
    Cardinality({e \in ActiveDims(mask) : e <= d}) = k

(* --------------- rtk::ForwardDifferenceGradientImageFilter ------------ *)

Gradient(x, shape, mask) ==
  [i \in Grid(shape) |->
     [k \in 1..NumActive(mask) |->
        LET d == ActiveDim(mask, k)
        IN  IF i[d] + 1 <= shape[d]
            THEN RSub(x[Shift(i, d, 1)], x[i])
            ELSE Zero]]

(* -------------- rtk::BackwardDifferenceDivergenceImageFilter ---------- *)

RECURSIVE DivSum(_, _, _, _, _)
DivSum(f, shape, mask, i, k) ==
  IF k = 0 THEN Zero
  ELSE LET d    == ActiveDim(mask, k)
           prev == IF i[d] - 1 >= 1 THEN f[Shift(i, d, -1)][k] ELSE Zero
       IN  RAdd(DivSum(f, shape, mask, i, k - 1), RSub(f[i][k], prev))


\* variant: the read before the first index wraps around to the last
DivergenceWrapping(f, shape, mask) ==
  [i \in Grid(shape) |->
     LET term(k) ==
           LET d == ActiveDim(mask, k)
           IN  RSub(f[i][k],
                    f[[i EXCEPT ![d] = IF @ = 1 THEN shape[d] ELSE @ - 1]][k])
     IN  IF NumActive(mask) = 1 THEN term(1) ELSE RAdd(term(1), term(2))]

Divergence(f, shape, mask) ==
  [i \in Grid(shape) |-> DivSum(f, shape, mask, i, NumActive(mask))]

(* ------------------ rtk::MagnitudeThresholdImageFilter ---------------- *)

\* floor that keeps the division defined at magnitude zero
Eps ==
  <<1, 16>>

RECURSIVE SumSq(_, _)
SumSq(v, k) ==
  IF k = 0 THEN Zero ELSE RAdd(SumSq(v, k - 1), RMul(v[k], v[k]))

NormSq(v) ==
  SumSq(v, Len(v))

Norm(v) ==
  RSqrt(NormSq(v))

MagnitudeProjection(f, t) ==
  [i \in DOMAIN f |->
     LET s == RMin(One, RDiv(t, RMax(Norm(f[i]), Eps)))
     IN  [k \in DOMAIN f[i] |-> RMul(s, f[i][k])]]

(* ------- the filter graph of TotalVariationDenoisingBPDQImageFilter --- *)


\* variant: the constant of the first multiplication is one
ZeroMultiplyByOne(in) ==
  [i \in DOMAIN in |-> RMul(in[i], One)]

\* itk::MultiplyImageFilter (by zero)
ZeroMultiply(in) ==
  [i \in DOMAIN in |-> RMul(in[i], Zero)]

\* Input -> ZeroMultiply -> ZeroGradient: the first content of OutOfZeroGradient
ZeroGradient(in, shape, mask) ==
  Gradient(ZeroMultiply(in), shape, mask)

\* itk::SubtractImageFilter on images: Input1 - Input2
Subtract(a, b) ==
  [i \in DOMAIN a |-> RSub(a[i], b[i])]

\* itk::MultiplyImageFilter (by beta)
Multiply(a, c) ==
  [i \in DOMAIN a |-> RMul(a[i], c)]


\* variant: the two inputs exchanged
SubtractGradientSwapped(g1, g2) ==
  [i \in DOMAIN g1 |-> [k \in DOMAIN g1[i] |-> RSub(g2[i][k], g1[i][k])]]

\* variant: an adding filter in place of the subtracting one
SubtractGradientAdds(g1, g2) ==
  [i \in DOMAIN g1 |-> [k \in DOMAIN g1[i] |-> RAdd(g1[i][k], g2[i][k])]]

\* itk::SubtractImageFilter on gradient images: Input1 - Input2, with
\* OutOfZeroGradient as Input1 and Gradient as Input2
SubtractGradient(g1, g2) ==
  [i \in DOMAIN g1 |-> [k \in DOMAIN g1[i] |-> RSub(g1[i][k], g2[i][k])]]


\* variant: the gradient image is fed back unprojected
MagnitudeThresholdBypassed(g, t) ==
  g

\* rtk::MagnitudeThresholdImageFilter, whose output replaces OutOfZeroGradient
MagnitudeThreshold(g, t) ==
  MagnitudeProjection(g, t)

\* Input -> Subtract <- Divergence <- OutOfZeroGradient
SubtractOutput(in, d, shape, mask) ==
  Subtract(in, Divergence(d, shape, mask))

\* Subtract -> Multiply -> Gradient -> SubtractGradient -> MagnitudeThreshold
PipelineUpdate(in, d, shape, mask, beta, gamma) ==
  MagnitudeThreshold(
    SubtractGradient(
      d, Gradient(Multiply(SubtractOutput(in, d, shape, mask), beta), shape, mask)),
    gamma)


\* variant: the output is grafted from Multiply instead of Subtract
OutputOfMultiply(in, d, shape, mask) ==
  Multiply(SubtractOutput(in, d, shape, mask), Rat(1, 4 * NumActive(mask)))

\* Subtract -> Output
Output(in, d, shape, mask) ==
  SubtractOutput(in, d, shape, mask)

(* --------------------------- run parameters --------------------------- *)

BetaOf(mask) ==
  Rat(1, 4 * NumActive(mask))

GammaOf(lambda) ==
  lambda


\* variant: lambda = 0 is let through
ValidConfigurationLax(n, lambda, mask) ==
  /\ n >= 0
  /\ RLe(Zero, lambda)
  /\ NumActive(mask) >= 1

ValidConfiguration(n, lambda, mask) ==
  /\ n >= 0
  /\ RLt(Zero, lambda)
  /\ NumActive(mask) >= 1

LoopContinues(i, n) ==
  i < n

\* the whole run as a function of its inputs
RECURSIVE DualAfter(_, _, _, _, _)
DualAfter(in, shape, mask, lambda, n) ==
  IF n = 0 THEN ZeroGradient(in, shape, mask)
  ELSE LET d == DualAfter(in, shape, mask, lambda, n - 1)
       IN  \* the comparison has the previous dual evaluated once, in full
           IF d = d
           THEN PipelineUpdate(in, d, shape, mask, BetaOf(mask), GammaOf(lambda))
           ELSE d

Denoise(in, shape, mask, lambda, n) ==
  Output(in, DualAfter(in, shape, mask, lambda, n), shape, mask)

(* ------------------------------- bounds ------------------------------- *)

MaxIter == 3

Shapes ==
  {<<3>>, <<2, 2>>}

PixelValues(shape) ==
  IF Len(shape) = 1 THEN {<<0, 1>>, <<4, 1>>, <<8, 1>>} ELSE {<<0, 1>>, <<8, 1>>}

Images(shape) ==
  [Grid(shape) -> PixelValues(shape)]

Masks(shape) ==
  [1..Len(shape) -> BOOLEAN]

Lambdas ==
  {<<-1, 1>>, <<0, 1>>, <<1, 1>>, <<2, 1>>}

IterationCounts ==
  -1..MaxIter

ConstantAlong(x, shape, d) ==
  \A i \in Grid(shape) : i[d] + 1 <= shape[d] => x[Shift(i, d, 1)] = x[i]

\* The masks under which every magnitude of the run is rational: one
\* processed dimension, or an image constant along some dimension (its
\* gradient vectors then have at most one non-zero component).
Representable(x, shape, mask) ==
  \/ NumActive(mask) <= 1
  \/ \E d \in 1..Len(shape) : ConstantAlong(x, shape, d)

(* ------------------------------- state -------------------------------- *)

VARIABLES input, shape, m_Lambda, m_NumberOfIterations, m_DimensionsProcessed,
          m_beta, m_gamma, dual, iter, output, pc, err, probe

vars ==
  <<pc, iter, err, input, shape, m_Lambda, m_NumberOfIterations,
    m_DimensionsProcessed, m_beta, m_gamma, dual, output, probe>>

NoImage ==
  <<>>

NoProbe ==
  [op |-> "none"]

Init ==
  /\ shape \in Shapes
  /\ input \in Images(shape)
  /\ m_Lambda \in Lambdas
  /\ m_NumberOfIterations \in IterationCounts
  /\ m_DimensionsProcessed \in {m \in Masks(shape) : Representable(input, shape, m)}
  /\ m_beta = Zero
  /\ m_gamma = Zero
  /\ dual = NoImage
  /\ iter = 0
  /\ output = NoImage
  /\ pc = "idle"
  /\ err = "none"
  /\ probe = NoProbe

SetNumberOfIterations(n) ==
  /\ pc = "idle"
  /\ m_NumberOfIterations' = n
  /\ UNCHANGED <<input, shape, m_Lambda, m_DimensionsProcessed, m_beta, m_gamma,
                 dual, iter, output, pc, err, probe>>

SetLambda(l) ==
  /\ pc = "idle"
  /\ m_Lambda' = l
  /\ UNCHANGED <<input, shape, m_NumberOfIterations, m_DimensionsProcessed, m_beta,
                 m_gamma, dual, iter, output, pc, err, probe>>

SetDimensionsProcessed(arg) ==
  /\ pc = "idle"
  /\ Representable(input, shape, arg)
  /\ m_DimensionsProcessed' = arg
  /\ UNCHANGED <<input, shape, m_Lambda, m_NumberOfIterations, m_beta, m_gamma,
                 dual, iter, output, pc, err, probe>>

\* GenerateData, up to the loop: the arguments are checked, beta and gamma
\* derived, and OutOfZeroGradient filled from ZeroGradient
GenerateDataBegin ==
  /\ pc = "idle"
  /\ IF ValidConfiguration(m_NumberOfIterations, m_Lambda, m_DimensionsProcessed)
     THEN /\ m_beta' = BetaOf(m_DimensionsProcessed)
          /\ m_gamma' = GammaOf(m_Lambda)
          /\ dual' = ZeroGradient(input, shape, m_DimensionsProcessed)
          /\ iter' = 0
          /\ pc' = "running"
          /\ UNCHANGED err
     ELSE /\ pc' = "failed"
          /\ err' = "InvalidArgument"
          /\ UNCHANGED <<m_beta, m_gamma, dual, iter>>
  /\ UNCHANGED <<input, shape, m_Lambda, m_NumberOfIterations,
                 m_DimensionsProcessed, output, probe>>

\* one pass of the loop: MagnitudeThreshold is updated and fed back
Iterate ==
  /\ pc = "running"
  /\ LoopContinues(iter, m_NumberOfIterations)
  /\ dual' = PipelineUpdate(input, dual, shape, m_DimensionsProcessed, m_beta, m_gamma)
  /\ iter' = iter + 1
  /\ UNCHANGED <<input, shape, m_Lambda, m_NumberOfIterations,
                 m_DimensionsProcessed, m_beta, m_gamma, output, pc, err, probe>>

\* after the loop: the output of Subtract is the output of the filter
GenerateDataEnd ==
  /\ pc = "running"
  /\ ~LoopContinues(iter, m_NumberOfIterations)
  /\ output' = Output(input, dual, shape, m_DimensionsProcessed)
  /\ pc' = "done"
  /\ UNCHANGED <<input, shape, m_Lambda, m_NumberOfIterations,
                 m_DimensionsProcessed, m_beta, m_gamma, dual, iter, err, probe>>

Next ==
  \/ \E n \in IterationCounts : SetNumberOfIterations(n)
  \/ \E l \in Lambdas : SetLambda(l)
  \/ \E arg \in Masks(shape) : SetDimensionsProcessed(arg)
  \/ GenerateDataBegin
  \/ Iterate
  \/ GenerateDataEnd

Spec ==
  Init /\ [][Next]_vars

\* GenerateData is one synchronous call: once begun, the loop and the final
\* graft run to completion
FairSpec ==
  Spec /\ WF_vars(Iterate) /\ WF_vars(GenerateDataEnd)

\* every magnitude the run computes is the exact root of a rational square
NormsExact ==
  pc = "running" =>
    \A i \in DOMAIN dual :
      IsSquare(NormSq(SubtractGradient(dual,
        Gradient(Multiply(SubtractOutput(input, dual, shape, m_DimensionsProcessed),
                          m_beta), shape, m_DimensionsProcessed))[i]))

(* ----------------- the end-to-end scenario of the run ------------------ *)

\* 1-D images [0, h, 0, h, 0]; h = 10 is the documented scenario
Spikes(h) ==
  [i \in Grid(<<5>>) |-> IF i[1] % 2 = 0 THEN <<h, 1>> ELSE Zero]

SpikeHeights ==
  {8, 10, 12}

InitE2E ==
  /\ shape = <<5>>
  /\ input \in {Spikes(h) : h \in SpikeHeights}
  /\ m_Lambda = One
  /\ m_NumberOfIterations = 50
  /\ m_DimensionsProcessed = <<TRUE>>
  /\ m_beta = Zero
  /\ m_gamma = Zero
  /\ dual = NoImage
  /\ iter = 0
  /\ output = NoImage
  /\ pc = "idle"
  /\ err = "none"
  /\ probe = NoProbe

NextE2E ==
  \/ GenerateDataBegin
  \/ Iterate
  \/ GenerateDataEnd

SpecE2E ==
  InitE2E /\ [][NextE2E]_vars

(* --------------- the three operators applied on their own ------------- *)

ProbeVectors(n) ==
  IF n = 1
  THEN {<<Zero>>, <<One>>, <<(<<-3, 1>>)>>, <<(<<1, 64>>)>>}
  ELSE {<<Zero, Zero>>, <<(<<3, 1>>), <<4, 1>>>>, <<Zero, One>>, <<(<<1, 64>>), Zero>>}

ProbeThresholds ==
  {<<1, 32>>, One, <<5, 1>>}

ProbePixels ==
  {Zero, One, <<2, 1>>}

ZeroImage(sh) ==
  [i \in Grid(sh) |-> Zero]

RECURSIVE InnerVec(_, _, _)
InnerVec(u, v, k) ==
  IF k = 0 THEN Zero ELSE RAdd(InnerVec(u, v, k - 1), RMul(u[k], v[k]))

RECURSIVE InnerOver(_, _, _, _)
InnerOver(S, a, b, n) ==
  IF S = {} THEN Zero
  ELSE LET i == CHOOSE j \in S : TRUE
           term == IF n = 0 THEN RMul(a[i], b[i]) ELSE InnerVec(a[i], b[i], n)
       IN  RAdd(term, InnerOver(S \ {i}, a, b, n))

\* standard inner product of two images
Inner(a, b) ==
  InnerOver(DOMAIN a, a, b, 0)

\* standard inner product of two gradient images with n components
InnerField(f, g, n) ==
  InnerOver(DOMAIN f, f, g, n)

Negate(a) ==
  [i \in DOMAIN a |-> RSub(Zero, a[i])]

InitOps ==
  /\ shape \in Shapes
  /\ m_DimensionsProcessed \in {m \in Masks(shape) : NumActive(m) >= 1}
  /\ \E y \in [Grid(shape) -> ProbeVectors(NumActive(m_DimensionsProcessed))] :
       \/ \E x \in [Grid(shape) -> ProbePixels] :
            probe = [op |-> "none", x |-> x, y |-> y, t |-> One, res |-> NoImage]
       \/ \E t \in ProbeThresholds :
            probe = [op |-> "none", x |-> ZeroImage(shape), y |-> y, t |-> t,
                     res |-> NoImage]
  /\ input = NoImage
  /\ m_Lambda = One
  /\ m_NumberOfIterations = 0
  /\ m_beta = Zero
  /\ m_gamma = Zero
  /\ dual = NoImage
  /\ iter = 0
  /\ output = NoImage
  /\ pc = "probe"
  /\ err = "none"

ApplyGradient ==
  /\ pc = "probe"
  /\ probe.op = "none"
  /\ probe' = [probe EXCEPT !.op = "gradient",
                            !.res = Gradient(probe.x, shape, m_DimensionsProcessed)]
  /\ UNCHANGED <<input, shape, m_Lambda, m_NumberOfIterations,
                 m_DimensionsProcessed, m_beta, m_gamma, dual, iter, output, pc, err>>

ApplyDivergence ==
  /\ pc = "probe"
  /\ probe.op = "none"
  /\ probe' = [probe EXCEPT !.op = "divergence",
                            !.res = Divergence(probe.y, shape, m_DimensionsProcessed)]
  /\ UNCHANGED <<input, shape, m_Lambda, m_NumberOfIterations,
                 m_DimensionsProcessed, m_beta, m_gamma, dual, iter, output, pc, err>>

ApplyMagnitudeProjection ==
  /\ pc = "probe"
  /\ probe.op = "none"
  /\ probe' = [probe EXCEPT !.op = "projection",
                            !.res = MagnitudeProjection(probe.y, probe.t)]
  /\ UNCHANGED <<input, shape, m_Lambda, m_NumberOfIterations,
                 m_DimensionsProcessed, m_beta, m_gamma, dual, iter, output, pc, err>>

\* both sides of the adjoint relation: <Gradient(x), y> and <x, -Divergence(y)>
ApplyInnerProducts ==
  /\ pc = "probe"
  /\ probe.op = "none"
  /\ probe' = [probe EXCEPT
       !.op = "inner",
       !.res = <<InnerField(Gradient(probe.x, shape, m_DimensionsProcessed), probe.y,
                            NumActive(m_DimensionsProcessed)),
                 Inner(probe.x,
                       Negate(Divergence(probe.y, shape, m_DimensionsProcessed)))>>]
  /\ UNCHANGED <<input, shape, m_Lambda, m_NumberOfIterations,
                 m_DimensionsProcessed, m_beta, m_gamma, dual, iter, output, pc, err>>

NextOps ==
  \/ ApplyGradient
  \/ ApplyDivergence
  \/ ApplyMagnitudeProjection
  \/ ApplyInnerProducts

SpecOps ==
  InitOps /\ [][NextOps]_vars

(* ============================== claims ================================ *)

AddGradient(g1, g2) ==
  [i \in DOMAIN g1 |-> [k \in DOMAIN g1[i] |-> RAdd(g1[i][k], g2[i][k])]]

ScaleGradient(g, c) ==
  [i \in DOMAIN g |-> [k \in DOMAIN g[i] |-> RMul(c, g[i][k])]]

\* beta * Gradient(input - Divergence(dual)) for the current state
ScaledEstimateGradient ==
  ScaleGradient(
    Gradient(Subtract(input, Divergence(dual, shape, m_DimensionsProcessed)),
             shape, m_DimensionsProcessed),
    Rat(1, 4 * NumActive(m_DimensionsProcessed)))

DerivedConstants ==
  /\ m_beta = Rat(1, 4 * NumActive(m_DimensionsProcessed))
  /\ m_gamma = m_Lambda

\* C1 (as claimed): every iteration replaces the dual by
\* Project_{|.| <= gamma}(dual + beta * Gradient(input - Divergence(dual))),
\* with beta = 1 / (4 * number of processed dimensions) and gamma = lambda.
C1_UpdateAdds ==
  [][Iterate =>
       /\ DerivedConstants
       /\ dual' = MagnitudeProjection(AddGradient(dual, ScaledEstimateGradient),
                                      m_Lambda)]_vars

\* C1 (amended): every iteration replaces the dual by
\* Project_{|.| <= gamma}(dual - beta * Gradient(input - Divergence(dual))),
\* with beta = 1 / (4 * number of processed dimensions) and gamma = lambda:
\* the graph subtracts the scaled gradient from the dual.
C1_UpdateSubtracts ==
  [][Iterate =>
       /\ DerivedConstants
       /\ dual' = MagnitudeProjection(
                    AddGradient(dual, ScaleGradient(ScaledEstimateGradient, <<-1, 1>>)),
                    m_Lambda)]_vars

\* a third iteration has run from a dual with a vector on the ball's
\* boundary and a non-zero vector inside it
C1_Witness ==
  /\ pc = "running"
  /\ iter >= 2
  /\ \E i \in DOMAIN dual : NormSq(dual[i]) = RMul(m_gamma, m_gamma)
  /\ \E i \in DOMAIN dual :
       RLt(Zero, NormSq(dual[i])) /\ RLt(NormSq(dual[i]), RMul(m_gamma, m_gamma))

RECURSIVE TVSum(_, _)
TVSum(x, k) ==
  IF k = 0 THEN Zero
  ELSE RAdd(TVSum(x, k - 1), RAbs(RSub(x[<<k + 1>>], x[<<k>>])))

\* total variation of a 1-D image: sum of absolute adjacent differences
TotalVariation(x, n) ==
  TVSum(x, n - 1)

E2EScenario ==
  /\ shape = <<5>>
  /\ input = Spikes(10)
  /\ m_Lambda = One
  /\ m_NumberOfIterations = 50
  /\ m_DimensionsProcessed = <<TRUE>>

\* C2: denoising [0, 10, 0, 10, 0] with lambda = 1, 50 iterations and the
\* full mask gives an output of total variation strictly below the input's
\* 40, with every value within [0, 10].
C2_EndToEnd ==
  (pc = "done" /\ E2EScenario) =>
    /\ TotalVariation(input, 5) = <<40, 1>>
    /\ RLt(TotalVariation(output, 5), <<40, 1>>)
    /\ \A i \in DOMAIN output : RLe(Zero, output[i]) /\ RLe(output[i], <<10, 1>>)

C2_Witness ==
  /\ pc = "done"
  /\ E2EScenario
  /\ iter = 50
  /\ output # input

\* C3: <Gradient(x), y> = <x, -Divergence(y)> for every image x and every
\* gradient image y, those with a non-zero component at the trailing
\* boundary included.
C3_Adjoint ==
  probe.op = "inner" => probe.res[1] = probe.res[2]

\* C4: with NumberOfIterations = 0 the output equals the input, element
\* for element, for every input, every valid lambda and every valid mask.
C4_ZeroIterations ==
  (pc = "done" /\ m_NumberOfIterations = 0) =>
    /\ DOMAIN output = DOMAIN input
    /\ \A i \in DOMAIN input : output[i] = input[i]

C4_Witness ==
  /\ pc = "done"
  /\ m_NumberOfIterations = 0
  /\ \E i, j \in DOMAIN input : input[i] # input[j]
  /\ m_Lambda = <<2, 1>>
  /\ NumActive(m_DimensionsProcessed) = 1
  /\ Len(shape) = 2

\* C5: MagnitudeProjection with threshold t > 0: every output vector has
\* magnitude at most t, every vector of magnitude at most t (the zero vector
\* included) is returned unchanged, and the output has the input's shape.
C5_Projection ==
  probe.op = "projection" =>
    /\ DOMAIN probe.res = DOMAIN probe.y
    /\ \A i \in DOMAIN probe.y :
         /\ DOMAIN probe.res[i] = DOMAIN probe.y[i]
         /\ RLe(NormSq(probe.res[i]), RMul(probe.t, probe.t))
         /\ RLe(NormSq(probe.y[i]), RMul(probe.t, probe.t)) =>
              probe.res[i] = probe.y[i]

\* the row (p = 1) or column (p = 2) of a 2-D image at index j of the
\* other dimension, as a 1-D image
Slice(x, sh, p, j) ==
  [i \in Grid(<<sh[p]>>) |-> x[[k \in 1..2 |-> IF k = p THEN i[1] ELSE j]]]

\* C6: an unprocessed dimension adds no component to the gradient, and for
\* an input that varies only along the unprocessed dimension every slice of
\* the output at a fixed index of that dimension equals the 1-D run on that
\* slice (same lambda, same iteration count).
C6_MaskSelectivity ==
  (pc = "done" /\ Len(shape) = 2) =>
    \A p \in 1..2 :
      LET q == 3 - p
      IN  (/\ m_DimensionsProcessed[p]
           /\ ~m_DimensionsProcessed[q]
           /\ ConstantAlong(input, shape, p)) =>
            /\ \A i \in DOMAIN dual : Len(dual[i]) = 1
            /\ \A j \in 1..shape[q] :
                 Slice(output, shape, p, j) =
                   Denoise(Slice(input, shape, p, j), <<shape[p]>>, <<TRUE>>,
                           m_Lambda, m_NumberOfIterations)

C6_Witness ==
  /\ pc = "done"
  /\ shape = <<2, 2>>
  /\ m_DimensionsProcessed = <<FALSE, TRUE>>
  /\ ConstantAlong(input, shape, 2)
  /\ ~ConstantAlong(input, shape, 1)
  /\ m_NumberOfIterations >= 2

\* C7: a run with NumberOfIterations < 0, lambda <= 0 or no processed
\* dimension fails with InvalidArgument before any iteration: no dual
\* update is made and no output produced.
C7_InvalidArgument ==
  (/\ pc # "idle"
   /\ pc # "probe"
   /\ \/ m_NumberOfIterations < 0
      \/ RLe(m_Lambda, Zero)
      \/ \A d \in 1..Len(shape) : ~m_DimensionsProcessed[d]) =>
    /\ pc = "failed"
    /\ err = "InvalidArgument"
    /\ iter = 0
    /\ dual = NoImage
    /\ output = NoImage

C7_Witness ==
  /\ pc = "failed"
  /\ m_NumberOfIterations = MaxIter
  /\ m_Lambda = Zero
  /\ \A d \in 1..Len(shape) : m_DimensionsProcessed[d]

\* component of a gradient image along dimension d
ComponentOf(mask, d) ==
  Cardinality({e \in 1..d : mask[e]})

\* field[i, d] - field[i - e_d, d], an out-of-bounds read taken as 0
BackwardDifference(f, mask, i, d) ==
  IF ~mask[d] THEN Zero
  ELSE RSub(f[i][ComponentOf(mask, d)],
            IF i[d] = 1 THEN Zero ELSE f[Shift(i, d, -1)][ComponentOf(mask, d)])

\* C8: Divergence at i is the sum over the processed dimensions d of
\* field[i, d] - field[i - e_d, d] with out-of-bounds reads taken as 0; the
\* 1-D field [p, q, 0] gives [p, q - p, -q], and Gradient of [a, b, c] is
\* [b - a, c - b, 0].
C8_Boundary ==
  /\ probe.op = "divergence" =>
       /\ \A i \in Grid(shape) :
            probe.res[i] =
              IF Len(shape) = 1
              THEN BackwardDifference(probe.y, m_DimensionsProcessed, i, 1)
              ELSE RAdd(BackwardDifference(probe.y, m_DimensionsProcessed, i, 1),
                        BackwardDifference(probe.y, m_DimensionsProcessed, i, 2))
       /\ (shape = <<3>> /\ probe.y[<<3>>][1] = Zero) =>
            probe.res = [i \in Grid(<<3>>) |->
                           CASE i[1] = 1 -> probe.y[<<1>>][1]
                             [] i[1] = 2 -> RSub(probe.y[<<2>>][1], probe.y[<<1>>][1])
                             [] i[1] = 3 -> RSub(Zero, probe.y[<<2>>][1])]
  /\ (probe.op = "gradient" /\ shape = <<3>>) =>
       probe.res = [i \in Grid(<<3>>) |->
                      CASE i[1] = 1 -> <<RSub(probe.x[<<2>>], probe.x[<<1>>])>>
                        [] i[1] = 2 -> <<RSub(probe.x[<<3>>], probe.x[<<2>>])>>
                        [] i[1] = 3 -> <<Zero>>]

C8_Witness ==
  /\ probe.op = "divergence"
  /\ shape = <<3>>
  /\ probe.y[<<1>>][1] = One
  /\ probe.y[<<2>>][1] = <<-3, 1>>
  /\ probe.y[<<3>>][1] = Zero
  /\ probe.res[<<3>>] = <<3, 1>>

\* C9: a valid run with NumberOfIterations = N makes exactly N dual updates,
\* each from the result of the one before, leaves the loop only after the
\* N-th, and then always ends with output = input - Divergence(dual), of
\* the input's shape.
C9_Run ==
  /\ [](pc = "running" => iter <= m_NumberOfIterations)
  /\ [](pc = "done" =>
          /\ iter = m_NumberOfIterations
          /\ DOMAIN output = Grid(shape)
          /\ output = Subtract(input, Divergence(dual, shape, m_DimensionsProcessed)))
  /\ [][(pc = "running" /\ pc' = "running") =>
          /\ iter' = iter + 1
          /\ dual' = PipelineUpdate(input, dual, shape, m_DimensionsProcessed,
                                    m_beta, m_gamma)]_vars
  /\ [][(pc = "running" /\ pc' # "running") =>
          /\ iter = m_NumberOfIterations
          /\ pc' = "done"
          /\ dual' = dual]_vars
  /\ (pc = "running") ~> (pc = "done")

C9_Witness ==
  /\ pc = "done"
  /\ iter = MaxIter
  /\ output # input

\* C10: the dual is all-zero before the first iteration; after each
\* iteration every vector of the dual has magnitude at most gamma; no
\* iteration changes the mask, lambda, beta, gamma or the input.
C10_DualFeasible ==
  /\ []((pc = "running" /\ iter = 0) =>
          \A i \in DOMAIN dual : \A k \in DOMAIN dual[i] : dual[i][k] = Zero)
  /\ []((pc \in {"running", "done"} /\ iter >= 1) =>
          \A i \in DOMAIN dual : RLe(NormSq(dual[i]), RMul(m_gamma, m_gamma)))
  /\ [](pc \in {"running", "done"} => DOMAIN dual = Grid(shape))
  /\ [][pc = "running" =>
          UNCHANGED <<m_DimensionsProcessed, m_Lambda, m_beta, m_gamma, input>>]_vars

\* a dual that the projection had to cut back to the ball
C10_Witness ==
  /\ pc = "running"
  /\ iter >= 1
  /\ \E i \in DOMAIN dual : NormSq(dual[i]) = RMul(m_gamma, m_gamma)
  /\ \E i \in DOMAIN input :
       RLt(RMul(m_gamma, <<4, 1>>), RAbs(input[i]))

====
